---- MODULE Spec2Model ----
(***************************************************************************)
(* Model of the Pulse dispatch object (packages/sdk/src/index.ts), the     *)
(* base adapter (packages/sdk/src/interfaces.ts) and the Plaid, Teller and *)
(* Pluggy adapters.  A provider's remote API is the environment: every     *)
(* awaited remote call is answered by a separate step with one of the      *)
(* responses the adapter's code distinguishes.  All code that runs between *)
(* two awaited remote calls (JavaScript's run-to-completion, microtasks    *)
(* included) is one atomic step.                                           *)
(***************************************************************************)
EXTENDS Integers, Sequences, FiniteSets, TLC

\* ------------------------------------------------------------------ bounds
MaxAdapters == 2
\* longest adapters list handed to the constructor when only construction is checked
MaxListLen == 3

\* ------------------------------------------------------------------ values
UNDEF == "<undefined>"
NoToken == "<no token>"

Kinds == {"plaid", "teller", "pluggy"}
\* userId arguments a caller passes; "" is a string the code treats as absent
UserIds == {"", "u1", "u2"}
\* provider arguments of the public operations; UNDEF is "no provider named"
ProviderArgs == {UNDEF, "plaid", "teller", "pluggy"}
\* provider arguments of exchangePublicToken and storeAccessToken, whose provider
\* parameter is a required string: "" is the string that names no provider
TokenProviderArgs == {"", "plaid", "teller", "pluggy"}
AccountId == "acc"
Token == "tok"
NetMessage == <<"socket hang up">>
StatusText == <<"Bad Gateway">>

\* account ids a provider answers with, in the provider's order
AccountLists == {<<"a1">>, <<"a2", "a1">>}
\* raw transactions a provider answers with
RawTx(id, amount, pending) == [id |-> id, amount |-> amount, pending |-> pending]
TxLists ==
    {<<RawTx("t1", -5, FALSE), RawTx("t2", 7, TRUE)>>,
     <<RawTx("t3", 0, FALSE), RawTx("t4", 12, FALSE)>>}

Truthy(s) == s # UNDEF /\ s # ""

\* a flattening that takes the lists last to first
RECURSIVE FlatReversed(_)
FlatReversed(lists) ==
    IF lists = <<>> THEN <<>> ELSE FlatReversed(Tail(lists)) \o Head(lists)

RECURSIVE Flat(_)
Flat(lists) == IF lists = <<>> THEN <<>> ELSE Head(lists) \o Flat(Tail(lists))

\* Array.prototype.join on messages kept as sequences of pieces
RECURSIVE Join(_, _)
Join(msgs, sep) ==
    IF msgs = <<>> THEN <<>>
    ELSE IF Len(msgs) = 1 THEN msgs[1]
    ELSE msgs[1] \o <<sep>> \o Join(Tail(msgs), sep)

\* ------------------------------------------------------------------ errors
JsError(message) ==
    [kind |-> "Error", code |-> UNDEF, message |-> message,
     provider |-> UNDEF, userId |-> UNDEF, accountId |-> UNDEF]

PulseError(message, code, provider, userId, accountId) ==
    [kind |-> "PulseError", code |-> code, message |-> message,
     provider |-> provider, userId |-> userId, accountId |-> accountId]

\* a thrown value that is not an Error (throw 'text'); message holds String(value)
Thrown(value) ==
    [kind |-> "value", code |-> UNDEF, message |-> value,
     provider |-> UNDEF, userId |-> UNDEF, accountId |-> UNDEF]
ThrownValue == <<"quota exceeded">>

IsPulseError(e) == e.kind = "PulseError"
IsError(e) == e.kind \in {"Error", "PulseError"}
\* error instanceof Error ? error : new Error(String(error))
ToError(e) == IF IsError(e) THEN e ELSE JsError(e.message)

\* the catch block shared by the adapters' and the dispatch object's methods
Wrap(e, prefix, code, provider, userId, accountId) ==
    IF IsPulseError(e) THEN e
    ELSE PulseError(<<prefix>> \o e.message, code, provider, userId, accountId)

NoError ==
    [kind |-> "none", code |-> UNDEF, message |-> <<>>,
     provider |-> UNDEF, userId |-> UNDEF, accountId |-> UNDEF]

\* a settled promise: fulfilled with a value or rejected with an error
Ok(value) == [ok |-> TRUE, value |-> value, error |-> NoError]
Err(e) == [ok |-> FALSE, value |-> <<>>, error |-> e]

\* ------------------------------------------------- adapter-local state
\* accessTokens: Record<string, string> of the Plaid and Teller adapters, kept
\* in insertion order (the order Object.keys enumerates); accessToken: the one
\* token of the Pluggy adapter
EmptyAdapter == [accessTokens |-> <<>>, accessToken |-> NoToken]

Keys(m) == [i \in 1..Len(m) |-> m[i].userId]
Has(m, u) == \E i \in 1..Len(m) : m[i].userId = u
Put(m, u, t) ==
    IF Has(m, u)
    THEN [i \in 1..Len(m) |-> IF m[i].userId = u THEN [userId |-> u, token |-> t] ELSE m[i]]
    ELSE Append(m, [userId |-> u, token |-> t])
Delete(m, u) == LET Keep(e) == e.userId # u IN SelectSeq(m, Keep)

\* a method's position after the code between two awaits has run: it has
\* settled (pc = "done") or it waits for the answer to one remote call
Done(st, result) ==
    [state |-> st, pc |-> "done", awaiting |-> "-", keys |-> <<>>, cur |-> UNDEF,
     result |-> result]
Await(st, what, keys, cur) ==
    [state |-> st, pc |-> "await", awaiting |-> what, keys |-> keys, cur |-> cur,
     result |-> Ok(<<>>)]

Resp(status, data) == [status |-> status, data |-> data]

\* the answers of the provider's API that the adapter's code tells apart
Responses(kind, awaiting) ==
    CASE awaiting = "connect" ->
           {Resp("ok", <<>>), Resp("noToken", <<>>), Resp("error", <<>>)}
           \cup (IF kind = "teller" THEN {Resp("notOk", <<>>)} ELSE {})
           \cup (IF kind = "pluggy" THEN {Resp("thrown", <<>>)} ELSE {})
      [] awaiting = "revoke" ->
           {Resp("ok", <<>>), Resp("error", <<>>)}
           \cup (IF kind = "teller" THEN {Resp("notOk", <<>>)} ELSE {})
      [] awaiting = "accounts" ->
           {Resp("ok", l) : l \in AccountLists} \cup {Resp("error", <<>>)}
           \cup (IF kind = "teller" THEN {Resp("notOk", <<>>)} ELSE {})
           \cup (IF kind = "pluggy" THEN {Resp("thrown", <<>>)} ELSE {})
      [] awaiting = "transactions" ->
           {Resp("ok", l) : l \in TxLists} \cup {Resp("error", <<>>)}
           \cup (IF kind = "teller" THEN {Resp("notOk", <<>>)} ELSE {})
           \cup (IF kind = "pluggy" THEN {Resp("thrown", <<>>)} ELSE {})
      [] awaiting = "exchange" ->
           {Resp("ok", <<>>), Resp("noToken", <<>>), Resp("error", <<>>)}
      [] OTHER -> {}

\* ------------------------------------------------------------- connect
ConnectStart(kind, st, p) == Await(st, "connect", <<>>, UNDEF)

\* a connect that stores the token it was answered with as the user's access token
ConnectResumeStoresToken(kind, st, p, resp) ==
    IF resp.status = "ok"
    THEN Done([st EXCEPT !.accessToken = Token,
                         !.accessTokens = Put(st.accessTokens, p.userId, Token)], Ok(<<>>))
    ELSE Done(st, Err(PulseError(<<"Failed to connect">>, "PROVIDER_CONNECTION_FAILED",
                                 kind, p.userId, UNDEF)))

ConnectResume(kind, st, p, resp) ==
    CASE kind = "pluggy" ->
           IF resp.status = "ok" THEN Done([st EXCEPT !.accessToken = Token], Ok(<<>>))
           ELSE IF resp.status = "noToken"
           THEN Done(st, Err(JsError(<<"Failed to connect to Pluggy: ",
                                       "Failed to create access token">>)))
           ELSE IF resp.status = "thrown" THEN Done(st, Err(Thrown(ThrownValue)))
           ELSE Done(st, Err(JsError(<<"Failed to connect to Pluggy: ">> \o NetMessage)))
      [] kind = "plaid" ->
           IF resp.status = "ok" THEN Done(st, Ok(<<>>))
           ELSE IF resp.status = "noToken"
           THEN Done(st, Err(PulseError(<<"Failed to create link token">>,
                             "PROVIDER_CONNECTION_FAILED", "plaid", p.userId, UNDEF)))
           ELSE Done(st, Err(Wrap(JsError(NetMessage), "Failed to connect to Plaid: ",
                             "PROVIDER_CONNECTION_FAILED", "plaid", p.userId, UNDEF)))
      [] OTHER ->
           IF resp.status = "ok" THEN Done(st, Ok(<<>>))
           ELSE IF resp.status = "notOk"
           THEN Done(st, Err(PulseError(<<"Teller API error: ">> \o StatusText,
                             "PROVIDER_CONNECTION_FAILED", "teller", p.userId, UNDEF)))
           ELSE IF resp.status = "noToken"
           THEN Done(st, Err(PulseError(<<"No connect token found in Teller response">>,
                             "PROVIDER_CONNECTION_FAILED", "teller", p.userId, UNDEF)))
           ELSE Done(st, Err(Wrap(JsError(NetMessage), "Failed to connect to Teller: ",
                             "PROVIDER_CONNECTION_FAILED", "teller", p.userId, UNDEF)))

\* ---------------------------------------------------------- disconnect
\* disconnectUser for the ids still to visit: an id with no stored token
\* returns at once, an id with a token awaits the remote revoke
RECURSIVE DisconnectLoop(_, _)
DisconnectLoop(st, keys) ==
    IF keys = <<>> THEN Done(st, Ok(<<>>))
    ELSE IF ~Has(st.accessTokens, Head(keys)) THEN DisconnectLoop(st, Tail(keys))
    ELSE Await(st, "revoke", Tail(keys), Head(keys))

DisconnectStart(kind, st, p) ==
    IF kind = "pluggy"
    THEN IF st.accessToken = NoToken
         THEN Done(st, Err(JsError(<<"Failed to disconnect from Pluggy: ",
                                     "Not connected to Pluggy">>)))
         ELSE Done([st EXCEPT !.accessToken = NoToken], Ok(<<>>))
    ELSE IF ~Truthy(p.userId)
         THEN DisconnectLoop(st, Keys(st.accessTokens))
         ELSE DisconnectLoop(st, <<p.userId>>)

\* a disconnectUser that deletes the token after the await instead of in finally
DisconnectResumeKeepOnFailure(kind, st, p, keys, cur, resp) ==
    IF resp.status = "ok"
    THEN DisconnectLoop([st EXCEPT !.accessTokens = Delete(st.accessTokens, cur)], keys)
    ELSE IF resp.status = "notOk"
    THEN Done(st, Err(PulseError(<<"Failed to revoke Teller token: ">> \o StatusText,
                      "PROVIDER_DISCONNECTION_FAILED", "teller", cur, UNDEF)))
    ELSE Done(st, Err(Wrap(JsError(NetMessage),
                      IF kind = "plaid" THEN "Failed to disconnect from Plaid: "
                                        ELSE "Failed to disconnect from Teller: ",
                      "PROVIDER_DISCONNECTION_FAILED", kind, p.userId, UNDEF)))

\* the answer to the revoke of cur's token: the finally block deletes the
\* token, then a failure leaves the loop and an answer continues it
DisconnectResume(kind, st, p, keys, cur, resp) ==
    LET st1 == [st EXCEPT !.accessTokens = Delete(st.accessTokens, cur)] IN
    IF resp.status = "ok" THEN DisconnectLoop(st1, keys)
    ELSE IF resp.status = "notOk"
    THEN Done(st1, Err(PulseError(<<"Failed to revoke Teller token: ">> \o StatusText,
                        "PROVIDER_DISCONNECTION_FAILED", "teller", cur, UNDEF)))
    ELSE Done(st1, Err(Wrap(JsError(NetMessage),
                        IF kind = "plaid" THEN "Failed to disconnect from Plaid: "
                                          ELSE "Failed to disconnect from Teller: ",
                        "PROVIDER_DISCONNECTION_FAILED", kind, p.userId, UNDEF)))

\* --------------------------------------------------------- getAccounts
Account(id) == [id |-> id]
Accounts(raw) == [i \in 1..Len(raw) |-> Account(raw[i])]

NotConnected(kind, userId) ==
    <<IF kind = "plaid" THEN "Not connected to Plaid for user "
                        ELSE "Not connected to Teller for user ", userId>>

\* a getAccounts that reports a missing token with the account-fetch code
GetAccountsStartFetchFailed(kind, st, p) ==
    IF kind = "pluggy"
    THEN IF st.accessToken = NoToken
         THEN Done(st, Err(JsError(<<"Failed to fetch accounts: ", "Not connected to Pluggy">>)))
         ELSE Await(st, "accounts", <<>>, UNDEF)
    ELSE IF ~Truthy(p.userId)
         THEN Done(st, Err(PulseError(<<"User ID is required to fetch accounts">>,
                           "VALIDATION_ERROR", kind, UNDEF, UNDEF)))
         ELSE IF ~Has(st.accessTokens, p.userId)
         THEN Done(st, Err(PulseError(NotConnected(kind, p.userId),
                           "ACCOUNT_FETCH_FAILED", kind, p.userId, UNDEF)))
         ELSE Await(st, "accounts", <<>>, UNDEF)

GetAccountsStart(kind, st, p) ==
    IF kind = "pluggy"
    THEN IF st.accessToken = NoToken
         THEN Done(st, Err(JsError(<<"Failed to fetch accounts: ", "Not connected to Pluggy">>)))
         ELSE Await(st, "accounts", <<>>, UNDEF)
    ELSE IF ~Truthy(p.userId)
         THEN Done(st, Err(PulseError(<<"User ID is required to fetch accounts">>,
                           "VALIDATION_ERROR", kind, UNDEF, UNDEF)))
         ELSE IF ~Has(st.accessTokens, p.userId)
         THEN Done(st, Err(PulseError(NotConnected(kind, p.userId),
                           "PROVIDER_CONNECTION_FAILED", kind, p.userId, UNDEF)))
         ELSE Await(st, "accounts", <<>>, UNDEF)

GetAccountsResume(kind, st, p, resp) ==
    IF resp.status = "ok" THEN Done(st, Ok(Accounts(resp.data)))
    ELSE IF kind = "pluggy"
    THEN IF resp.status = "thrown" THEN Done(st, Err(Thrown(ThrownValue)))
         ELSE Done(st, Err(JsError(<<"Failed to fetch accounts: ">> \o NetMessage)))
    ELSE IF resp.status = "notOk"
    THEN Done(st, Err(PulseError(<<"Teller API error: ">> \o StatusText,
                      "ACCOUNT_FETCH_FAILED", "teller", p.userId, UNDEF)))
    ELSE Done(st, Err(Wrap(JsError(NetMessage), "Failed to fetch accounts: ",
                      "ACCOUNT_FETCH_FAILED", kind, p.userId, UNDEF)))

\* ----------------------------------------------------- getTransactions
\* a magnitude that keeps the sign
AbsKeepsSign(n) == n

\* Math.abs
Abs(n) == IF n < 0 THEN -n ELSE n

\* the decimal string the Teller API sends for an amount (amount: z.string()),
\* as a sequence of characters
DigitChars == <<"0", "1", "2", "3", "4", "5", "6", "7", "8", "9">>
RECURSIVE Digits(_)
Digits(n) ==
    IF n < 10 THEN <<DigitChars[n + 1]>>
    ELSE Digits(n \div 10) \o <<DigitChars[(n % 10) + 1]>>
TellerAmount(a) == IF a < 0 THEN <<"-">> \o Digits(-a) ELSE Digits(a)

\* parseFloat on a string of an optional sign and digits: the digits read
\* left to right, negated after a leading "-"; NaN when no digit leads
NaN == "NaN"
DigitValue(c) == (CHOOSE d \in 1..10 : DigitChars[d] = c) - 1
IsDigit(c) == \E d \in 1..10 : DigitChars[d] = c
RECURSIVE ParseDigits(_, _)
ParseDigits(chars, acc) ==
    IF chars = <<>> \/ ~IsDigit(Head(chars)) THEN acc
    ELSE ParseDigits(Tail(chars), acc * 10 + DigitValue(Head(chars)))
\* a parse that drops the sign
ParseFloatUnsigned(chars) ==
    LET body == IF chars # <<>> /\ Head(chars) \in {"-", "+"} THEN Tail(chars) ELSE chars IN
    IF body = <<>> \/ ~IsDigit(Head(body)) THEN NaN ELSE ParseDigits(body, 0)

ParseFloat(chars) ==
    LET body == IF chars # <<>> /\ Head(chars) \in {"-", "+"} THEN Tail(chars) ELSE chars IN
    IF body = <<>> \/ ~IsDigit(Head(body)) THEN NaN
    ELSE IF Head(chars) = "-" THEN -ParseDigits(body, 0) ELSE ParseDigits(body, 0)

\* the signed amount an adapter reads from a provider transaction
Amount(kind, t) == IF kind = "teller" THEN ParseFloat(TellerAmount(t.amount)) ELSE t.amount
NotPending(t) == ~t.pending
Transaction(kind, t) ==
    [id |-> t.id, amount |-> Abs(Amount(kind, t)),
     type |-> IF Amount(kind, t) < 0 THEN "DEBIT" ELSE "CREDIT"]

\* a normalisation that keeps the pending transactions
TransactionsKeepPending(kind, raw) == [i \in 1..Len(raw) |-> Transaction(kind, raw[i])]

Transactions(kind, raw) ==
    LET kept == SelectSeq(raw, NotPending)
    IN  [i \in 1..Len(kept) |-> Transaction(kind, kept[i])]

GetTransactionsStart(kind, st, p) ==
    IF kind = "pluggy"
    THEN IF st.accessToken = NoToken
         THEN Done(st, Err(JsError(<<"Failed to fetch transactions: ",
                                     "Not connected to Pluggy">>)))
         ELSE Await(st, "transactions", <<>>, UNDEF)
    ELSE IF ~Truthy(p.userId)
         THEN Done(st, Err(PulseError(<<"User ID is required to fetch transactions">>,
                           "VALIDATION_ERROR", kind, UNDEF, p.accountId)))
         ELSE IF ~Has(st.accessTokens, p.userId)
         THEN Done(st, Err(PulseError(NotConnected(kind, p.userId),
                           "PROVIDER_CONNECTION_FAILED", kind, p.userId, p.accountId)))
         ELSE Await(st, "transactions", <<>>, UNDEF)

GetTransactionsResume(kind, st, p, resp) ==
    IF resp.status = "ok" THEN Done(st, Ok(Transactions(kind, resp.data)))
    ELSE IF kind = "pluggy"
    THEN IF resp.status = "thrown" THEN Done(st, Err(Thrown(ThrownValue)))
         ELSE Done(st, Err(JsError(<<"Failed to fetch transactions: ">> \o NetMessage)))
    ELSE IF resp.status = "notOk"
    THEN Done(st, Err(PulseError(<<"Teller API error: ">> \o StatusText,
                      "TRANSACTION_FETCH_FAILED", "teller", p.userId, p.accountId)))
    ELSE Done(st, Err(Wrap(JsError(NetMessage), "Failed to fetch transactions: ",
                      "TRANSACTION_FETCH_FAILED", kind, UNDEF, p.accountId)))

\* ------------------------------- exchangePublicToken, storeAccessToken
HasMethod(kind, method) ==
    \/ method \in {"connect", "disconnect", "getAccounts", "getTransactions",
                   "refreshAccounts"}
    \/ method = "exchangePublicToken" /\ kind = "plaid"
    \/ method = "storeAccessToken" /\ kind = "teller"

ExchangePublicTokenStart(kind, st, p) == Await(st, "exchange", <<>>, UNDEF)

ExchangePublicTokenResume(kind, st, p, resp) ==
    IF resp.status = "ok"
    THEN Done([st EXCEPT !.accessTokens = Put(st.accessTokens, p.userId, Token)], Ok(<<>>))
    ELSE IF resp.status = "noToken"
    THEN Done(st, Err(PulseError(<<"No access token received from Plaid">>,
                      "PROVIDER_CONNECTION_FAILED", "plaid", p.userId, UNDEF)))
    ELSE Done(st, Err(Wrap(JsError(NetMessage), "Failed to exchange public token: ",
                      "PROVIDER_CONNECTION_FAILED", "plaid", p.userId, UNDEF)))

StoreAccessTokenStart(kind, st, p) ==
    Done([st EXCEPT !.accessTokens = Put(st.accessTokens, p.userId, Token)], Ok(<<>>))

\* ------------------------------------------------ one adapter method call
Params(userId, accountId) == [userId |-> userId, accountId |-> accountId]

\* the code of an adapter's own method up to its first await
MethodStart(kind, st, method, p) ==
    CASE method = "connect" -> ConnectStart(kind, st, p)
      [] method = "disconnect" -> DisconnectStart(kind, st, p)
      [] method = "getAccounts" -> GetAccountsStart(kind, st, p)
      [] method = "getTransactions" -> GetTransactionsStart(kind, st, p)
      [] method = "exchangePublicToken" -> ExchangePublicTokenStart(kind, st, p)
      [] OTHER -> StoreAccessTokenStart(kind, st, p)

\* the code of an adapter's own method from the answer of the awaited remote
\* call up to its next await
MethodResume(kind, st, method, p, keys, cur, resp) ==
    CASE method = "connect" -> ConnectResume(kind, st, p, resp)
      [] method = "disconnect" -> DisconnectResume(kind, st, p, keys, cur, resp)
      [] method = "getAccounts" -> GetAccountsResume(kind, st, p, resp)
      [] method = "getTransactions" -> GetTransactionsResume(kind, st, p, resp)
      [] OTHER -> ExchangePublicTokenResume(kind, st, p, resp)

\* BasePulseAdapter.refreshAccounts: what follows a step of this.disconnect
\* or this.connect; log lists the inner calls that have completed
Entry(method, result) == [method |-> method, result |-> result]

\* a catch block of refreshAccounts that re-throws whatever it caught
RefreshCatchRethrows(kind, p, e) == e

RefreshCatch(kind, p, e) ==
    Wrap(e, "Failed to refresh accounts: ", "ACCOUNT_REFRESH_FAILED", kind, p.userId, UNDEF)

RECURSIVE RefreshContinue(_, _, _, _, _)
RefreshContinue(kind, p, inner, frame, log) ==
    IF frame.pc = "await" THEN [frame |-> frame, inner |-> inner, log |-> log]
    ELSE LET log1 == Append(log, Entry(inner, frame.result)) IN
         IF ~frame.result.ok
         THEN [frame |-> Done(frame.state, Err(RefreshCatch(kind, p, frame.result.error))),
               inner |-> inner, log |-> log1]
         ELSE IF inner = "disconnect"
         THEN RefreshContinue(kind, p, "connect", ConnectStart(kind, frame.state, p), log1)
         ELSE [frame |-> Done(frame.state, Ok(<<>>)), inner |-> inner, log |-> log1]

\* a refreshAccounts that calls this.disconnect({}) and so disconnects every user
AdapterStartDisconnectAll(kind, st, method, p) ==
    IF method = "refreshAccounts"
    THEN RefreshContinue(kind, p, "disconnect",
                         DisconnectStart(kind, st, [p EXCEPT !.userId = UNDEF]), <<>>)
    ELSE [frame |-> MethodStart(kind, st, method, p), inner |-> method, log |-> <<>>]

\* an adapter method invoked by the dispatch object, run to its first await
AdapterStart(kind, st, method, p) ==
    IF method = "refreshAccounts"
    THEN RefreshContinue(kind, p, "disconnect", DisconnectStart(kind, st, p), <<>>)
    ELSE [frame |-> MethodStart(kind, st, method, p), inner |-> method, log |-> <<>>]

\* an adapter method call resumed by the answer of the remote call it awaits
AdapterResume(st, t, resp) ==
    LET frame == MethodResume(t.kind, st, t.inner, t.p, t.keys, t.cur, resp) IN
    IF t.method = "refreshAccounts"
    THEN RefreshContinue(t.kind, t.p, t.inner, frame, t.log)
    ELSE [frame |-> frame, inner |-> t.inner, log |-> t.log]

\* the record of one adapter method call; pre (the adapter's state when it was
\* called) and resps (the answers it has received) are history for the properties
Task(inst, kind, method, p, x, pre, resps) ==
    [inst |-> inst, kind |-> kind, method |-> method, p |-> p,
     pc |-> x.frame.pc, awaiting |-> x.frame.awaiting, keys |-> x.frame.keys,
     cur |-> x.frame.cur, inner |-> x.inner, result |-> x.frame.result, log |-> x.log,
     pre |-> pre, resps |-> resps]

\* ------------------------------------------------------ the constructor
Slot(provider, inst) == [provider |-> provider, inst |-> inst]
RegIndex(reg, provider) ==
    IF \E i \in 1..Len(reg) : reg[i].provider = provider
    THEN CHOOSE i \in 1..Len(reg) : reg[i].provider = provider
    ELSE 0

\* a registration that keeps the adapter registered first under a key
MapSetKeepFirst(reg, provider, inst) ==
    IF RegIndex(reg, provider) = 0 THEN Append(reg, Slot(provider, inst)) ELSE reg

\* Map.prototype.set: a new key is appended, an existing key keeps its place
MapSet(reg, provider, inst) ==
    IF RegIndex(reg, provider) = 0 THEN Append(reg, Slot(provider, inst))
    ELSE [reg EXCEPT ![RegIndex(reg, provider)] = Slot(provider, inst)]

RECURSIVE Register(_, _, _)
Register(reg, list, i) ==
    IF i > Len(list) THEN reg ELSE Register(MapSet(reg, list[i], i), list, i + 1)

\* enum ErrorCode
ErrorCodes ==
    {"PROVIDER_NOT_FOUND", "PROVIDER_CONNECTION_FAILED", "PROVIDER_DISCONNECTION_FAILED",
     "ACCOUNT_FETCH_FAILED", "TRANSACTION_FETCH_FAILED", "ACCOUNT_REFRESH_FAILED",
     "VALIDATION_ERROR", "CONFIGURATION_ERROR", "UNKNOWN_ERROR", "METHOD_NOT_SUPPORTED"}

ConfigurationError ==
    PulseError(<<"At least one adapter must be provided">>, "CONFIGURATION_ERROR",
               UNDEF, UNDEF, UNDEF)

\* -------------------------------------------------- the dispatch object
FanOutOps == {"connect", "disconnect", "getAccounts", "refreshAccounts"}
TokenOps == {"exchangePublicToken", "storeAccessToken"}

OpPrefix(op) ==
    CASE op = "connect" -> "Failed to connect: "
      [] op = "disconnect" -> "Failed to disconnect: "
      [] op = "getAccounts" -> "Failed to fetch accounts: "
      [] op = "getTransactions" -> "Failed to fetch transactions: "
      [] op = "refreshAccounts" -> "Failed to refresh accounts: "
      [] op = "exchangePublicToken" -> "Failed to exchange public token: "
      [] OTHER -> "Failed to store access token: "

OpCode(op) ==
    CASE op = "connect" -> "PROVIDER_CONNECTION_FAILED"
      [] op = "disconnect" -> "PROVIDER_DISCONNECTION_FAILED"
      [] op = "getAccounts" -> "ACCOUNT_FETCH_FAILED"
      [] op = "getTransactions" -> "TRANSACTION_FETCH_FAILED"
      [] op = "refreshAccounts" -> "ACCOUNT_REFRESH_FAILED"
      [] OTHER -> "PROVIDER_CONNECTION_FAILED"

\* a catch block that re-throws whatever it caught
PulseCatchRethrows(c, e) == e

\* a catch block that wraps every error, tagged or not
PulseCatchAlwaysWraps(c, e) ==
    PulseError(<<OpPrefix(c.op)>> \o e.message, OpCode(c.op), c.provider, c.userId,
               IF c.op = "getTransactions" THEN c.accountId ELSE UNDEF)

\* the catch block of a public operation
PulseCatch(c, e) ==
    Wrap(e, OpPrefix(c.op), OpCode(c.op), c.provider, c.userId,
         IF c.op = "getTransactions" THEN c.accountId ELSE UNDEF)

\* a getAdapter that falls back to the default or first adapter when the named
\* provider is not registered
GetAdapterFallsBack(reg, default, provider) ==
    IF Truthy(provider) /\ RegIndex(reg, provider) # 0
    THEN [index |-> RegIndex(reg, provider), error |-> NoError]
    ELSE IF Truthy(default) /\ RegIndex(reg, default) # 0
         THEN [index |-> RegIndex(reg, default), error |-> NoError]
         ELSE [index |-> 1, error |-> NoError]

\* a getAdapter that takes the first adapter whenever no provider is named
GetAdapterIgnoresDefault(reg, default, provider) ==
    IF Truthy(provider)
    THEN IF RegIndex(reg, provider) = 0
         THEN [index |-> 0,
               error |-> PulseError(<<"Provider ", provider, " not found">>,
                                    "PROVIDER_NOT_FOUND", provider, UNDEF, UNDEF)]
         ELSE [index |-> RegIndex(reg, provider), error |-> NoError]
    ELSE [index |-> 1, error |-> NoError]

\* a getAdapter that takes the first adapter for every registered name
GetAdapterFirstRegistered(reg, default, provider) ==
    IF Truthy(provider)
    THEN IF RegIndex(reg, provider) = 0
         THEN [index |-> 0,
               error |-> PulseError(<<"Provider ", provider, " not found">>,
                                    "PROVIDER_NOT_FOUND", provider, UNDEF, UNDEF)]
         ELSE [index |-> 1, error |-> NoError]
    ELSE IF Truthy(default) /\ RegIndex(reg, default) # 0
         THEN [index |-> RegIndex(reg, default), error |-> NoError]
         ELSE [index |-> 1, error |-> NoError]

\* Pulse.getAdapter: the registry index of the adapter, or the error thrown
GetAdapter(reg, default, provider) ==
    IF Truthy(provider)
    THEN IF RegIndex(reg, provider) = 0
         THEN [index |-> 0,
               error |-> PulseError(<<"Provider ", provider, " not found">>,
                                    "PROVIDER_NOT_FOUND", provider, UNDEF, UNDEF)]
         ELSE [index |-> RegIndex(reg, provider), error |-> NoError]
    ELSE IF Truthy(default) /\ RegIndex(reg, default) # 0
         THEN [index |-> RegIndex(reg, default), error |-> NoError]
         ELSE [index |-> 1, error |-> NoError]

NotSupported(c) ==
    PulseError(<<"Provider ", c.provider,
                 IF c.op = "exchangePublicToken" THEN " does not support token exchange"
                 ELSE " does not support storing access tokens directly">>,
               "PROVIDER_CONNECTION_FAILED", c.provider, c.userId, UNDEF)

\* a promise as the dispatch object sees it
Promise(t) == [done |-> t.pc = "done", result |-> t.result]
\* no catch handler on the adapter's promise
CaughtNothing(pr) == pr

\* promise.catch(() => []) of the accounts fan-out, promise.catch(() => {}) of
\* the refresh fan-out
Caught(pr) == IF pr.done /\ ~pr.result.ok THEN [pr EXCEPT !.result = Ok(<<>>)] ELSE pr

\* a combinator that waits for every input before it rejects (Promise.allSettled
\* followed by a throw of the first rejection in input order)
PromiseAllSettled(prs) ==
    LET rejected == {i \in 1..Len(prs) : prs[i].done /\ ~prs[i].result.ok} IN
    IF \E i \in 1..Len(prs) : ~prs[i].done
    THEN [done |-> FALSE, result |-> Ok(<<>>)]
    ELSE IF rejected # {}
    THEN [done |-> TRUE,
          result |-> Err(prs[CHOOSE i \in rejected : \A j \in rejected : i <= j].result.error)]
    ELSE [done |-> TRUE, result |-> Ok([i \in 1..Len(prs) |-> prs[i].result.value])]

\* Promise.all: rejected with the first rejection, fulfilled with the values
\* in input order once every input is fulfilled
PromiseAll(prs) ==
    LET rejected == {i \in 1..Len(prs) : prs[i].done /\ ~prs[i].result.ok} IN
    IF rejected # {}
    THEN [done |-> TRUE,
          result |-> Err(prs[CHOOSE i \in rejected : \A j \in rejected : i <= j].result.error)]
    ELSE IF \A i \in 1..Len(prs) : prs[i].done
    THEN [done |-> TRUE, result |-> Ok([i \in 1..Len(prs) |-> prs[i].result.value])]
    ELSE [done |-> FALSE, result |-> Ok(<<>>)]

\* a fan-out whose every adapter promise has a catch handler
FanOutPromiseCatchAll(op, ts) ==
    PromiseAll([i \in 1..Len(ts) |-> Caught(Promise(ts[i]))])

\* what the fan-out branch of an operation awaits
FanOutPromise(op, ts) ==
    LET prs == [i \in 1..Len(ts) |-> Promise(ts[i])] IN
    IF op \in {"getAccounts", "refreshAccounts"}
    THEN PromiseAll([i \in 1..Len(prs) |-> Caught(prs[i])])
    ELSE PromiseAll(prs)

Settled(c, result) ==
    [c EXCEPT !.status = "settled",
              !.result = IF result.ok THEN result ELSE Err(PulseCatch(c, result.error))]

\* the operation's code after the promise it awaits has settled
FanOutReact(c, ts) ==
    LET pr == FanOutPromise(c.op, ts) IN
    IF ~pr.done THEN c
    ELSE IF ~pr.result.ok THEN Settled(c, pr.result)
    ELSE IF c.op = "getAccounts" THEN Settled(c, Ok(Flat(pr.result.value)))
    ELSE Settled(c, Ok(<<>>))

NamedReact(c, ts) ==
    IF ts[1].pc = "done" THEN Settled(c, ts[1].result) ELSE c

\* an aggregate that reports the last failure only
AllFailedLastOnly(c, errors) ==
    PulseError(<<"All providers failed to fetch transactions: ">>
                 \o errors[Len(errors)].message,
               "TRANSACTION_FETCH_FAILED", UNDEF, c.userId, c.accountId)

AllFailed(c, errors) ==
    PulseError(<<"All providers failed to fetch transactions: ">>
                 \o Join([i \in 1..Len(errors) |-> errors[i].message], "; "),
               "TRANSACTION_FETCH_FAILED", UNDEF, c.userId, c.accountId)

\* a loop whose catch re-raises a tagged error instead of trying the next adapter
RECURSIVE FallbackTaggedAbort(_, _, _, _)
FallbackTaggedAbort(c, reg, sts, ts) ==
    LET k == Len(ts) IN
    IF k > 0 /\ ts[k].pc = "await" THEN [call |-> c, states |-> sts, tasks |-> ts]
    ELSE IF k > 0 /\ (ts[k].result.ok \/ IsPulseError(ts[k].result.error))
    THEN [call |-> Settled(c, ts[k].result), states |-> sts, tasks |-> ts]
    ELSE LET c1 == IF k = 0 THEN c
                   ELSE [c EXCEPT !.errors = Append(c.errors, ToError(ts[k].result.error))] IN
         IF k = Len(reg)
         THEN [call |-> Settled(c1, Err(AllFailed(c1, c1.errors))), states |-> sts, tasks |-> ts]
         ELSE LET inst == reg[k + 1].inst
                  x == AdapterStart(reg[k + 1].provider, sts[inst], "getTransactions",
                                    Params(c.userId, c.accountId))
              IN  FallbackTaggedAbort(c1, reg, [sts EXCEPT ![inst] = x.frame.state],
                           Append(ts, Task(inst, reg[k + 1].provider, "getTransactions",
                                           Params(c.userId, c.accountId), x, sts[inst], <<>>)))

\* a search that invokes every adapter at once and takes the first success in
\* registration order
RECURSIVE FallbackEager(_, _, _, _)
FallbackEager(c, reg, sts, ts) ==
    LET k == Len(ts) IN
    IF k < Len(reg)
    THEN LET inst == reg[k + 1].inst
             x == AdapterStart(reg[k + 1].provider, sts[inst], "getTransactions",
                               Params(c.userId, c.accountId))
         IN  FallbackEager(c, reg, [sts EXCEPT ![inst] = x.frame.state],
                           Append(ts, Task(inst, reg[k + 1].provider, "getTransactions",
                                           Params(c.userId, c.accountId), x, sts[inst], <<>>)))
    ELSE LET failed(i) == ts[i].pc = "done" /\ ~ts[i].result.ok
             winners == {i \in 1..k : ts[i].pc = "done" /\ ts[i].result.ok
                                          /\ \A j \in 1..(i - 1) : failed(j)}
         IN  IF winners # {}
             THEN [call |-> Settled(c, ts[CHOOSE i \in winners : TRUE].result),
                   states |-> sts, tasks |-> ts]
             ELSE IF \A i \in 1..k : failed(i)
             THEN [call |-> Settled(c, Err(AllFailed(c,
                               [i \in 1..k |-> ToError(ts[i].result.error)]))),
                   states |-> sts, tasks |-> ts]
             ELSE [call |-> c, states |-> sts, tasks |-> ts]

\* the for loop of getTransactions from the point where the call of the last
\* adapter invoked has settled (or none was invoked yet)
RECURSIVE Fallback(_, _, _, _)
Fallback(c, reg, sts, ts) ==
    LET k == Len(ts) IN
    IF k > 0 /\ ts[k].pc = "await" THEN [call |-> c, states |-> sts, tasks |-> ts]
    ELSE IF k > 0 /\ ts[k].result.ok
    THEN [call |-> Settled(c, ts[k].result), states |-> sts, tasks |-> ts]
    ELSE LET c1 == IF k = 0 THEN c
                   ELSE [c EXCEPT !.errors = Append(c.errors, ToError(ts[k].result.error))] IN
         IF k = Len(reg)
         THEN [call |-> Settled(c1, Err(AllFailed(c1, c1.errors))), states |-> sts, tasks |-> ts]
         ELSE LET inst == reg[k + 1].inst
                  x == AdapterStart(reg[k + 1].provider, sts[inst], "getTransactions",
                                    Params(c.userId, c.accountId))
              IN  Fallback(c1, reg, [sts EXCEPT ![inst] = x.frame.state],
                           Append(ts, Task(inst, reg[k + 1].provider, "getTransactions",
                                           Params(c.userId, c.accountId), x, sts[inst], <<>>)))

\* a reaction that continues getTransactions with the next adapter even when a
\* provider was named
ReactFallsBack(c, reg, sts, ts) ==
    IF c.status # "pending" THEN [call |-> c, states |-> sts, tasks |-> ts]
    ELSE IF c.op = "getTransactions" THEN Fallback(c, reg, sts, ts)
    ELSE IF Truthy(c.provider) \/ c.op \in TokenOps
    THEN [call |-> NamedReact(c, ts), states |-> sts, tasks |-> ts]
    ELSE [call |-> FanOutReact(c, ts), states |-> sts, tasks |-> ts]

\* the dispatch object's reaction when a call of one of its adapters settled
React(c, reg, sts, ts) ==
    IF c.status # "pending" THEN [call |-> c, states |-> sts, tasks |-> ts]
    ELSE IF Truthy(c.provider) \/ c.op \in TokenOps
    THEN [call |-> NamedReact(c, ts), states |-> sts, tasks |-> ts]
    ELSE IF c.op = "getTransactions" THEN Fallback(c, reg, sts, ts)
    ELSE [call |-> FanOutReact(c, ts), states |-> sts, tasks |-> ts]

NewCall(op, userId, provider) ==
    [op |-> op, userId |-> userId, accountId |-> AccountId, provider |-> provider,
     status |-> "pending", result |-> Ok(<<>>), errors |-> <<>>]

\* a dispatch that resolves every call through getAdapter, so that a call
\* naming no provider goes to the default provider's adapter
DispatchViaDefault(c, reg, default, sts) ==
    LET p == Params(c.userId, c.accountId)
        ga == GetAdapter(reg, default, c.provider) IN
    IF ga.index = 0
    THEN [call |-> Settled(c, Err(ga.error)), states |-> sts, tasks |-> <<>>]
    ELSE IF ~HasMethod(reg[ga.index].provider, c.op)
    THEN [call |-> Settled(c, Err(NotSupported(c))), states |-> sts, tasks |-> <<>>]
    ELSE LET inst == reg[ga.index].inst
             x == AdapterStart(reg[ga.index].provider, sts[inst], c.op, p)
             ts == <<Task(inst, reg[ga.index].provider, c.op, p, x, sts[inst], <<>>)>>
         IN  [call |-> NamedReact(c, ts), states |-> [sts EXCEPT ![inst] = x.frame.state],
              tasks |-> ts]

\* a public operation from its call to its first await
Dispatch(c, reg, default, sts) ==
    LET p == Params(c.userId, c.accountId) IN
    IF Truthy(c.provider) \/ c.op \in TokenOps
    THEN LET ga == GetAdapter(reg, default, c.provider) IN
         IF ga.index = 0
         THEN [call |-> Settled(c, Err(ga.error)), states |-> sts, tasks |-> <<>>]
         ELSE IF ~HasMethod(reg[ga.index].provider, c.op)
         THEN [call |-> Settled(c, Err(NotSupported(c))), states |-> sts, tasks |-> <<>>]
         ELSE LET inst == reg[ga.index].inst
                  x == AdapterStart(reg[ga.index].provider, sts[inst], c.op, p)
              IN  React(c, reg, [sts EXCEPT ![inst] = x.frame.state],
                        <<Task(inst, reg[ga.index].provider, c.op, p, x, sts[inst], <<>>)>>)
    ELSE IF c.op = "getTransactions" THEN Fallback(c, reg, sts, <<>>)
    ELSE LET xs == [i \in 1..Len(reg) |->
                       AdapterStart(reg[i].provider, sts[reg[i].inst], c.op, p)]
         IN  React(c, reg,
                   [inst \in DOMAIN sts |->
                       IF \E i \in 1..Len(reg) : reg[i].inst = inst
                       THEN xs[CHOOSE i \in 1..Len(reg) : reg[i].inst = inst].frame.state
                       ELSE sts[inst]],
                   [i \in 1..Len(reg) |->
                       Task(reg[i].inst, reg[i].provider, c.op, p, xs[i], sts[reg[i].inst], <<>>)])

\* ---------------------------------------------------------------- state
VARIABLES
    adapters,         \* options.adapters: the provider of each adapter instance
    defaultProvider,  \* options.defaultProvider
    status,           \* "new", then "ready" (constructed) or "failed"
    registry,         \* this.adapters, in Map order
    adapterState,     \* the token store of each adapter instance
    call,             \* the public operation called last, and its outcome
    tasks             \* the adapter method calls that operation made, in order

vars == <<adapters, defaultProvider, status, registry, adapterState, call, tasks>>

DefaultProviders == {UNDEF, "teller"}
\* userIds under which the model's callers store tokens
StoreUserIds == {"u1", "u2"}
\* userIds of the model's calls of the other operations, disconnect excepted
QueryUserIds == {"u1"}

NoCall ==
    [op |-> "none", userId |-> UNDEF, accountId |-> UNDEF, provider |-> UNDEF,
     status |-> "none", result |-> Ok(<<>>), errors |-> <<>>]

Init ==
    /\ adapters \in UNION {[1..n -> Kinds] : n \in 0..MaxAdapters}
    /\ defaultProvider \in DefaultProviders
    /\ status = "new"
    /\ registry = <<>>
    /\ adapterState = [i \in 1..Len(adapters) |-> EmptyAdapter]
    /\ call = NoCall
    /\ tasks = <<>>

\* a constructor with no check of the adapters list
ConstructorAcceptsEmpty ==
    /\ status = "new"
    /\ status' = "ready"
    /\ registry' = Register(<<>>, adapters, 1)
    /\ UNCHANGED <<adapters, defaultProvider, adapterState, call, tasks>>

\* new Pulse(options)
Constructor ==
    /\ status = "new"
    /\ IF Len(adapters) = 0
       THEN /\ status' = "failed"
            /\ call' = [NoCall EXCEPT !.op = "constructor", !.status = "settled",
                                      !.result = Err(ConfigurationError)]
            /\ registry' = registry
       ELSE /\ status' = "ready"
            /\ registry' = Register(<<>>, adapters, 1)
            /\ call' = call
    /\ UNCHANGED <<adapters, defaultProvider, adapterState, tasks>>

InFlight(ts) == {i \in 1..Len(ts) : ts[i].pc = "await"}

\* a caller calls a public operation, once every adapter call of the previous
\* one has settled
Invoke(op, userId, provider) ==
    /\ status = "ready"
    /\ call.status # "pending"
    /\ InFlight(tasks) = {}
    /\ LET d == Dispatch(NewCall(op, userId, provider), registry, defaultProvider,
                         adapterState)
       IN  /\ call' = d.call
           /\ tasks' = d.tasks
           /\ adapterState' = d.states
    /\ UNCHANGED <<adapters, defaultProvider, status, registry>>

PulseConnect == \E u \in QueryUserIds, pr \in ProviderArgs : Invoke("connect", u, pr)
PulseDisconnect == \E u \in UserIds, pr \in ProviderArgs : Invoke("disconnect", u, pr)
PulseGetAccounts == \E u \in QueryUserIds, pr \in ProviderArgs : Invoke("getAccounts", u, pr)
PulseGetTransactions ==
    \E u \in QueryUserIds, pr \in ProviderArgs : Invoke("getTransactions", u, pr)
PulseRefreshAccounts ==
    \E u \in QueryUserIds, pr \in ProviderArgs : Invoke("refreshAccounts", u, pr)
PulseExchangePublicToken ==
    \E u \in StoreUserIds, pr \in TokenProviderArgs : Invoke("exchangePublicToken", u, pr)
PulseStoreAccessToken ==
    \E u \in StoreUserIds, pr \in TokenProviderArgs : Invoke("storeAccessToken", u, pr)

\* the provider answers the remote call that tasks[i] awaits
Respond ==
    \E i \in 1..Len(tasks) :
        /\ tasks[i].pc = "await"
        /\ \E resp \in Responses(tasks[i].kind, tasks[i].awaiting) :
              LET t == tasks[i]
                  x == AdapterResume(adapterState[t.inst], t, resp)
                  r == React(call, registry,
                             [adapterState EXCEPT ![t.inst] = x.frame.state],
                             [tasks EXCEPT ![i] = Task(t.inst, t.kind, t.method, t.p, x,
                                                       t.pre, Append(t.resps, resp))])
              IN  /\ call' = r.call
                  /\ tasks' = r.tasks
                  /\ adapterState' = r.states
        /\ UNCHANGED <<adapters, defaultProvider, status, registry>>

Next ==
    \/ Constructor
    \/ PulseConnect
    \/ PulseDisconnect
    \/ PulseGetAccounts
    \/ PulseGetTransactions
    \/ PulseRefreshAccounts
    \/ PulseExchangePublicToken
    \/ PulseStoreAccessToken
    \/ Respond

Spec == Init /\ [][Next]_vars

\* provider identifiers an adapter may carry: Provider is string, so the empty
\* string and identifiers of adapters outside this repository are admitted
ProviderIds == Kinds \cup {"", "mock"}

\* construction alone, over every adapters list of provider identifiers
InitAnyProviders ==
    /\ adapters \in UNION {[1..n -> ProviderIds] : n \in 0..MaxListLen}
    /\ defaultProvider \in DefaultProviders
    /\ status = "new"
    /\ registry = <<>>
    /\ adapterState = [i \in 1..Len(adapters) |-> EmptyAdapter]
    /\ call = NoCall
    /\ tasks = <<>>

SpecConstructor == InitAnyProviders /\ [][Constructor]_vars

\* ------------------------------------------ one adapter, called directly
\* calls a caller makes on one Plaid or Teller adapter instance, so that its
\* userId ranges over every string and its disconnect calls can overlap
MaxCalls == 4

InitAdapter ==
    /\ adapters \in {<<"plaid">>, <<"teller">>}
    /\ defaultProvider = UNDEF
    /\ status = "ready"
    /\ registry = Register(<<>>, adapters, 1)
    /\ adapterState = <<EmptyAdapter>>
    /\ call = NoCall
    /\ tasks = <<>>

\* a caller calls a method of the adapter; the call runs to its first await.
\* A disconnect may be called while other disconnect calls await their answers.
AdapterCall(method, userId, overlaps) ==
    /\ Len(tasks) < MaxCalls
    /\ HasMethod(adapters[1], method)
    /\ \A i \in InFlight(tasks) : overlaps /\ tasks[i].method = "disconnect"
    /\ LET p == Params(userId, AccountId)
           x == AdapterStart(adapters[1], adapterState[1], method, p)
       IN  /\ tasks' = Append(tasks, Task(1, adapters[1], method, p, x, adapterState[1], <<>>))
           /\ adapterState' = [adapterState EXCEPT ![1] = x.frame.state]
    /\ UNCHANGED <<adapters, defaultProvider, status, registry, call>>

AdapterDisconnect == \E u \in UserIds : AdapterCall("disconnect", u, TRUE)
AdapterRefreshAccounts == \E u \in UserIds : AdapterCall("refreshAccounts", u, FALSE)
AdapterExchangePublicToken == \E u \in UserIds : AdapterCall("exchangePublicToken", u, FALSE)
AdapterStoreAccessToken == \E u \in UserIds : AdapterCall("storeAccessToken", u, FALSE)

NextAdapter ==
    \/ AdapterDisconnect
    \/ AdapterRefreshAccounts
    \/ AdapterExchangePublicToken
    \/ AdapterStoreAccessToken
    \/ Respond

SpecAdapter == InitAdapter /\ [][NextAdapter]_vars

\* ========================================================== properties
FanOut(op) == call.op = op /\ ~Truthy(call.provider) /\ call.status # "none"
IsDone(t) == t.pc = "done"
Failed(t) == t.pc = "done" /\ ~t.result.ok
Succeeded(t) == t.pc = "done" /\ t.result.ok

\* the operation invoked its method, with its userId, on every registered
\* adapter, in registration order
InvokedOnAll ==
    /\ Len(tasks) = Len(registry)
    /\ \A i \in 1..Len(tasks) :
          /\ tasks[i].inst = registry[i].inst
          /\ tasks[i].method = call.op
          /\ tasks[i].p.userId = call.userId

\* an adapter's own list, empty when its call failed
OwnList(t) == IF Succeeded(t) THEN t.result.value ELSE <<>>
RECURSIVE ConcatOwn(_, _)
ConcatOwn(ts, i) == IF i > Len(ts) THEN <<>> ELSE OwnList(ts[i]) \o ConcatOwn(ts, i + 1)

\* C1: getAccounts with no provider named does not raise and returns the
\* concatenation, in registration order, of each registered adapter's own
\* account list, an adapter whose getAccounts failed contributing nothing.
C1_GetAccountsConcatenation ==
    (FanOut("getAccounts") /\ call.status = "settled") =>
        /\ call.result.ok
        /\ InvokedOnAll
        /\ \A i \in 1..Len(tasks) : IsDone(tasks[i])
        /\ call.result.value = ConcatOwn(tasks, 1)

C1_Witness ==
    /\ FanOut("getAccounts") /\ call.status = "settled"
    /\ Len(tasks) = 2
    /\ Failed(tasks[1])
    /\ Succeeded(tasks[2]) /\ Len(tasks[2].result.value) = 2
    /\ call.result.value = tasks[2].result.value

\* C2: getTransactions with no provider named tries the adapters in
\* registration order, each only after the one before has failed, and returns
\* exactly the result of the first that succeeds, whatever kind of error the
\* earlier ones raised; it fails only when every registered adapter has failed.
C2_FirstSuccessWins ==
    FanOut("getTransactions") =>
        /\ \A i \in 1..Len(tasks) : tasks[i].inst = registry[i].inst
        /\ \A i \in 1..(Len(tasks) - 1) : Failed(tasks[i])
        /\ (Len(tasks) > 0 /\ Succeeded(tasks[Len(tasks)])) =>
              /\ call.status = "settled" /\ call.result.ok
              /\ call.result.value = tasks[Len(tasks)].result.value
        /\ (call.status = "settled" /\ call.result.ok) =>
              (Len(tasks) > 0 /\ Succeeded(tasks[Len(tasks)]))
        /\ (call.status = "settled" /\ ~call.result.ok) =>
              (Len(tasks) = Len(registry) /\ Failed(tasks[Len(tasks)]))

C2_Witness ==
    /\ FanOut("getTransactions") /\ call.status = "settled" /\ call.result.ok
    /\ Len(tasks) = 2
    /\ Failed(tasks[1]) /\ IsPulseError(tasks[1].result.error)
    /\ Len(call.result.value) = 1

\* m occurs in msg at position pos
OccursAt(msg, m, pos) ==
    /\ pos + Len(m) - 1 <= Len(msg)
    /\ \A j \in 1..Len(m) : msg[pos + j - 1] = m[j]
\* the messages ms occur in msg one after the other, from position from on
RECURSIVE ContainsInOrder(_, _, _)
ContainsInOrder(msg, ms, from) ==
    IF ms = <<>> THEN TRUE
    ELSE \E pos \in from..Len(msg) :
            /\ OccursAt(msg, Head(ms), pos)
            /\ ContainsInOrder(msg, Tail(ms), pos + Len(Head(ms)))

\* C3: when getTransactions with no provider named has tried every registered
\* adapter and all failed, it raises one PulseError with code
\* TRANSACTION_FETCH_FAILED whose message contains every adapter's failure
\* message, in registration order.
C3_AllFailedAggregates ==
    (FanOut("getTransactions") /\ call.status = "settled" /\ ~call.result.ok) =>
        /\ InvokedOnAll
        /\ \A i \in 1..Len(tasks) : Failed(tasks[i])
        /\ IsPulseError(call.result.error)
        /\ call.result.error.code = "TRANSACTION_FETCH_FAILED"
        /\ ContainsInOrder(call.result.error.message,
                           [i \in 1..Len(tasks) |-> tasks[i].result.error.message], 1)

C3_Witness ==
    /\ FanOut("getTransactions") /\ call.status = "settled" /\ ~call.result.ok
    /\ Len(tasks) = 2
    /\ tasks[1].result.error.message # tasks[2].result.error.message
    /\ ~IsPulseError(tasks[1].result.error) /\ IsPulseError(tasks[2].result.error)

\* the error a public operation's catch block raises for the adapter error e
Reported(e, r) ==
    IF IsPulseError(e) THEN r = e
    ELSE /\ IsPulseError(r)
         /\ r.code = OpCode(call.op)
         /\ r.message = <<OpPrefix(call.op)>> \o e.message

\* C4 as claimed: when connect with no provider named reports a failure, no
\* adapter's connect attempt is still in flight.
C4_ReportedAfterAllSettled ==
    (FanOut("connect") /\ call.status = "settled" /\ ~call.result.ok) => InFlight(tasks) = {}

\* C4, amended: connect with no provider named invokes connect on every
\* registered adapter; it fails in the very step in which the first adapter's
\* connect fails, with that adapter's error, whether or not the other
\* attempts have settled; it succeeds once all have succeeded.
C4_ConnectFailsFast ==
    /\ [](FanOut("connect") =>
            /\ InvokedOnAll
            /\ call.status = "pending" => \A i \in 1..Len(tasks) : ~Failed(tasks[i])
            /\ (call.status = "settled" /\ call.result.ok) =>
                  \A i \in 1..Len(tasks) : Succeeded(tasks[i])
            /\ (call.status = "settled" /\ ~call.result.ok) =>
                  \E i \in 1..Len(tasks) : Failed(tasks[i]))
    /\ [][(FanOut("connect") /\ call.status = "pending" /\ call'.status = "settled"
              /\ ~call'.result.ok) =>
            \E i \in 1..Len(tasks) :
                /\ tasks[i].pc = "await" /\ Failed(tasks'[i])
                /\ \A j \in 1..Len(tasks) \ {i} : ~Failed(tasks'[j])
                /\ Reported(tasks'[i].result.error, call'.result.error)]_vars

C4_Witness ==
    /\ FanOut("connect") /\ call.status = "settled" /\ ~call.result.ok
    /\ InFlight(tasks) # {}

\* C5 as claimed: disconnect with no provider named completes without raising.
C5_DisconnectSwallows ==
    (FanOut("disconnect") /\ call.status = "settled") => call.result.ok

\* C5, amended: disconnect with no provider named invokes disconnect on every
\* registered adapter; it completes without raising exactly when every
\* adapter's disconnect succeeded, and otherwise raises a PulseError that
\* reports a failed adapter's error.
C5_DisconnectRaisesFailure ==
    FanOut("disconnect") =>
        /\ InvokedOnAll
        /\ call.status = "pending" => \A i \in 1..Len(tasks) : ~Failed(tasks[i])
        /\ (call.status = "settled" /\ call.result.ok) =>
              \A i \in 1..Len(tasks) : Succeeded(tasks[i])
        /\ (call.status = "settled" /\ ~call.result.ok) =>
              /\ IsPulseError(call.result.error)
              /\ \E i \in 1..Len(tasks) :
                    Failed(tasks[i]) /\ Reported(tasks[i].result.error, call.result.error)

C5_Witness ==
    /\ FanOut("disconnect") /\ call.status = "settled" /\ ~call.result.ok
    /\ Len(tasks) = 2
    /\ Succeeded(tasks[1]) /\ Failed(tasks[2])

\* C6: refreshAccounts with no provider named invokes refreshAccounts on every
\* registered adapter and completes without raising once all have settled,
\* whatever subset of them failed.
C6_RefreshNeverRaises ==
    FanOut("refreshAccounts") =>
        /\ InvokedOnAll
        /\ call.status = "settled" <=> \A i \in 1..Len(tasks) : IsDone(tasks[i])
        /\ call.status = "settled" => call.result.ok

C6_Witness ==
    /\ FanOut("refreshAccounts") /\ call.status = "settled" /\ call.result.ok
    /\ Len(tasks) = 2
    /\ \A i \in 1..2 : Failed(tasks[i])

TokenMap(t) == t.kind \in {"plaid", "teller"}
Store(t) == adapterState[t.inst].accessTokens
TaskIds == 1..Len(tasks)

\* C7 as claimed: when an adapter's disconnect with no userId has returned or
\* raised, the adapter's userId->token map is empty.
C7_BulkDisconnectEmptiesStore ==
    \A i \in TaskIds :
        (TokenMap(tasks[i]) /\ tasks[i].method = "disconnect" /\ ~Truthy(tasks[i].p.userId)
            /\ IsDone(tasks[i]))
        => Store(tasks[i]) = <<>>

\* C8: when an adapter's disconnect(userId) for a user who had a stored token
\* has returned or raised, the adapter holds no token for that user; a failed
\* remote revoke still makes the call fail, and the caller is told.
C8_DisconnectRemovesToken ==
    \A i \in TaskIds :
        (TokenMap(tasks[i]) /\ tasks[i].method = "disconnect" /\ Truthy(tasks[i].p.userId)
            /\ Has(tasks[i].pre.accessTokens, tasks[i].p.userId) /\ IsDone(tasks[i]))
        => /\ ~Has(Store(tasks[i]), tasks[i].p.userId)
           /\ Len(tasks[i].resps) = 1
           /\ tasks[i].resps[1].status # "ok" =>
                 (Failed(tasks[i]) /\ call.status = "settled" /\ ~call.result.ok)

C8_Witness ==
    \E i \in TaskIds :
        /\ TokenMap(tasks[i]) /\ tasks[i].method = "disconnect" /\ tasks[i].p.userId = "u2"
        /\ Has(tasks[i].pre.accessTokens, "u2") /\ Failed(tasks[i])
        /\ Store(tasks[i]) # <<>> /\ ~Has(Store(tasks[i]), "u2")

\* an adapter method run alone from its first line to its end, the provider
\* answering its remote calls with resps, one after the other
RECURSIVE Drive(_, _, _, _, _)
Drive(kind, method, p, frame, resps) ==
    IF frame.pc = "done" \/ resps = <<>> THEN [frame |-> frame, rest |-> resps]
    ELSE Drive(kind, method, p,
               MethodResume(kind, frame.state, method, p, frame.keys, frame.cur, Head(resps)),
               Tail(resps))

\* await adapter.disconnect(p); await adapter.connect(p) written by a caller
Sequence(kind, st, p, resps) ==
    LET d == Drive(kind, "disconnect", p, DisconnectStart(kind, st, p), resps) IN
    IF d.frame.pc = "await" \/ ~d.frame.result.ok
    THEN [state |-> d.frame.state, result |-> d.frame.result, calls |-> <<"disconnect">>]
    ELSE LET c == Drive(kind, "connect", p, ConnectStart(kind, d.frame.state, p), d.rest) IN
         [state |-> c.frame.state, result |-> c.frame.result,
          calls |-> <<"disconnect", "connect">>]

Calls(t) == [j \in 1..Len(t.log) |-> t.log[j].method]

\* C9 as claimed: the default refreshAccounts leaves the adapter in the state,
\* and ends with the outcome, of disconnect followed by connect.
C9_RefreshIsDisconnectThenConnect ==
    \A i \in TaskIds :
        (tasks[i].method = "refreshAccounts" /\ IsDone(tasks[i])) =>
            LET s == Sequence(tasks[i].kind, tasks[i].pre, tasks[i].p, tasks[i].resps) IN
            /\ adapterState[tasks[i].inst] = s.state
            /\ Calls(tasks[i]) = s.calls
            /\ tasks[i].result = s.result

\* C9, amended: the default refreshAccounts invokes disconnect first and
\* connect only after disconnect has completed without error; it leaves the
\* adapter in the state of disconnect followed by connect and ends with the
\* same outcome, except that a failure which is not a PulseError is raised
\* wrapped in a PulseError with code ACCOUNT_REFRESH_FAILED.
C9_RefreshIsSequenceUpToWrapping ==
    \A i \in TaskIds :
        tasks[i].method = "refreshAccounts" =>
            LET t == tasks[i]
                s == Sequence(t.kind, t.pre, t.p, t.resps) IN
            /\ t.inner = "connect" =>
                  (Len(t.log) >= 1 /\ t.log[1].method = "disconnect" /\ t.log[1].result.ok)
            /\ adapterState[t.inst] = s.state
            /\ IsDone(t) =>
                  /\ Calls(t) = s.calls
                  /\ t.result.ok = s.result.ok
                  /\ (~s.result.ok /\ IsPulseError(s.result.error)) => t.result = s.result
                  /\ (~s.result.ok /\ ~IsPulseError(s.result.error)) =>
                        /\ IsPulseError(t.result.error)
                        /\ t.result.error.code = "ACCOUNT_REFRESH_FAILED"
                        /\ t.result.error.message =
                              <<"Failed to refresh accounts: ">> \o s.result.error.message
                        /\ t.result.error.provider = t.kind
                        /\ t.result.error.userId = t.p.userId

C9_Witness ==
    \E i \in TaskIds :
        /\ tasks[i].method = "refreshAccounts" /\ TokenMap(tasks[i]) /\ Succeeded(tasks[i])
        /\ Len(tasks[i].pre.accessTokens) = 2
        /\ Len(tasks[i].log) = 2 /\ Len(tasks[i].resps) = 2
        /\ Len(Store(tasks[i])) = 1

\* getAccounts(userId) called now on the adapter of t would be rejected as
\* not connected
RejectedAsNotConnected(t) ==
    LET f == GetAccountsStart(t.kind, adapterState[t.inst], t.p) IN
    /\ f.pc = "done" /\ ~f.result.ok
    /\ f.result.error.message = NotConnected(t.kind, t.p.userId)

PublicOps == FanOutOps \cup TokenOps \cup {"getTransactions"}
Raised == call.status = "settled" /\ ~call.result.ok
Named == call.op \in PublicOps /\ Truthy(call.provider)

\* C11: every error a public operation raises to its caller is a PulseError
\* whose code is a member of ErrorCode, whether the adapter threw an Error, a
\* PulseError or a value that is not an Error.
C11_RaisedErrorsAreTagged ==
    (call.op \in PublicOps /\ Raised) =>
        /\ IsPulseError(call.result.error)
        /\ call.result.error.code \in ErrorCodes

C11_Witness ==
    /\ call.op \in PublicOps /\ Raised
    /\ \E i \in TaskIds : Failed(tasks[i]) /\ tasks[i].result.error.kind = "value"
    /\ IsPulseError(call.result.error)
    /\ call.result.error.message = <<OpPrefix(call.op)>> \o ThrownValue

\* C12: when the adapter method invoked through a named provider raises a
\* PulseError, the public operation raises that same error: code, message,
\* provider, userId and accountId are the adapter's.
C12_TaggedErrorUnchanged ==
    (Named /\ Len(tasks) = 1 /\ Failed(tasks[1]) /\ IsPulseError(tasks[1].result.error)) =>
        /\ Raised
        /\ call.result.error = tasks[1].result.error

C12_Witness ==
    /\ Named /\ Len(tasks) = 1 /\ Failed(tasks[1]) /\ IsPulseError(tasks[1].result.error)
    /\ call.op = "getAccounts"
    /\ tasks[1].result.error.code # OpCode(call.op)
    /\ Raised /\ call.result.error.code = tasks[1].result.error.code

Registered == RegIndex(registry, call.provider) # 0
Target == registry[RegIndex(registry, call.provider)]

\* C13 as claimed: exchangePublicToken or storeAccessToken for a registered
\* provider whose adapter lacks the method fails with a PulseError whose code
\* is METHOD_NOT_SUPPORTED, and no adapter method is invoked.
C13_MissingMethodNotSupported ==
    (call.op \in TokenOps /\ Named /\ Registered /\ ~HasMethod(Target.provider, call.op)) =>
        /\ Raised
        /\ IsPulseError(call.result.error)
        /\ call.result.error.code = "METHOD_NOT_SUPPORTED"
        /\ tasks = <<>>

\* C14: a public operation called with a named provider that is not
\* registered fails with a PulseError whose code is PROVIDER_NOT_FOUND and
\* whose provider field is the requested name, and invokes no adapter method.
C14_UnknownProviderNotFound ==
    (Named /\ ~Registered) =>
        /\ Raised
        /\ IsPulseError(call.result.error)
        /\ call.result.error.code = "PROVIDER_NOT_FOUND"
        /\ call.result.error.provider = call.provider
        /\ tasks = <<>>

C14_Witness ==
    /\ Named /\ ~Registered /\ Raised
    /\ call.op = "disconnect" /\ Len(registry) = 2
    /\ call.result.error.message = <<"Provider ", call.provider, " not found">>

\* C15: getTransactions with a named registered provider invokes
\* getTransactions on that adapter and on no other; when that adapter fails
\* the caller receives its failure (unchanged when it is a PulseError, wrapped
\* as TRANSACTION_FETCH_FAILED otherwise) and no other adapter is tried.
C15_NamedTransactionsNoFallback ==
    (call.op = "getTransactions" /\ Named /\ Registered) =>
        /\ Len(tasks) = 1
        /\ tasks[1].inst = Target.inst
        /\ tasks[1].kind = call.provider
        /\ tasks[1].method = "getTransactions"
        /\ Failed(tasks[1]) =>
              (Raised /\ Reported(tasks[1].result.error, call.result.error))
        /\ Succeeded(tasks[1]) =>
              (call.status = "settled" /\ call.result = tasks[1].result)

C15_Witness ==
    /\ call.op = "getTransactions" /\ Named /\ Registered
    /\ Len(registry) = 2 /\ RegIndex(registry, call.provider) = 1
    /\ Len(tasks) = 1 /\ Failed(tasks[1]) /\ Raised
    /\ Len(tasks[1].resps) = 1

NoTokenGetAccounts(t) ==
    /\ TokenMap(t) /\ t.method = "getAccounts" /\ Truthy(t.p.userId)
    /\ ~Has(t.pre.accessTokens, t.p.userId) /\ IsDone(t)

\* C16 as claimed: an adapter's getAccounts(userId) for a user with no stored
\* token fails with a PulseError whose code is ACCOUNT_FETCH_FAILED.
C16_NotConnectedIsFetchFailed ==
    \A i \in TaskIds :
        NoTokenGetAccounts(tasks[i]) =>
            /\ Failed(tasks[i])
            /\ IsPulseError(tasks[i].result.error)
            /\ tasks[i].result.error.code = "ACCOUNT_FETCH_FAILED"

\* C16, amended: getAccounts(userId) of the Plaid or Teller adapter for a
\* user with no stored token fails, without calling the provider, with a
\* PulseError whose code is PROVIDER_CONNECTION_FAILED and whose message is
\* "Not connected to <Provider> for user <userId>"; the code
\* ACCOUNT_FETCH_FAILED is the one of a failed call to the provider.
C16_NotConnectedIsConnectionFailed ==
    \A i \in TaskIds :
        /\ NoTokenGetAccounts(tasks[i]) =>
              /\ Failed(tasks[i])
              /\ tasks[i].resps = <<>>
              /\ tasks[i].result.error =
                    PulseError(NotConnected(tasks[i].kind, tasks[i].p.userId),
                               "PROVIDER_CONNECTION_FAILED", tasks[i].kind,
                               tasks[i].p.userId, UNDEF)
        /\ (TokenMap(tasks[i]) /\ tasks[i].method = "getAccounts" /\ Failed(tasks[i])
               /\ tasks[i].resps # <<>>) =>
              /\ IsPulseError(tasks[i].result.error)
              /\ tasks[i].result.error.code = "ACCOUNT_FETCH_FAILED"

C16_Witness ==
    \E i \in TaskIds :
        /\ NoTokenGetAccounts(tasks[i]) /\ Failed(tasks[i])
        /\ tasks[i].pre.accessTokens # <<>>
        /\ tasks[i].result.error.code = "PROVIDER_CONNECTION_FAILED"

\* the ids of the transactions of a list, in order
Ids(list) == [j \in 1..Len(list) |-> list[j].id]
Posted(raw) == SelectSeq(raw, LAMBDA r : ~r.pending)
Answer(t) == t.resps[Len(t.resps)].data

\* C17: no transaction the provider marks as pending is in the list an
\* adapter's getTransactions returns; the list holds the other transactions of
\* the provider's answer, in the provider's order.
C17_NoPendingTransactions ==
    \A i \in TaskIds :
        (tasks[i].method = "getTransactions" /\ Succeeded(tasks[i])) =>
            /\ \A j \in 1..Len(Answer(tasks[i])) :
                  Answer(tasks[i])[j].pending =>
                     \A k \in 1..Len(tasks[i].result.value) :
                        tasks[i].result.value[k].id # Answer(tasks[i])[j].id
            /\ Ids(tasks[i].result.value) = Ids(Posted(Answer(tasks[i])))

C17_Witness ==
    \E i \in TaskIds :
        /\ tasks[i].method = "getTransactions" /\ Succeeded(tasks[i])
        /\ \E j \in 1..Len(Answer(tasks[i])) : Answer(tasks[i])[j].pending
        /\ Len(tasks[i].result.value) = 1
        /\ Len(Answer(tasks[i])) = 2

\* C18: constructing the dispatch object with an empty adapters list fails
\* with a PulseError whose code is CONFIGURATION_ERROR; no dispatch object
\* exists afterwards, so no registry is built and no operation is ever run.
C18_EmptyAdaptersRejected ==
    /\ (status # "new" /\ Len(adapters) = 0) =>
          /\ status = "failed"
          /\ call.op = "constructor" /\ Raised
          /\ IsPulseError(call.result.error)
          /\ call.result.error.code = "CONFIGURATION_ERROR"
          /\ registry = <<>> /\ tasks = <<>>
    /\ status = "failed" => Len(adapters) = 0

C18_Witness ==
    /\ status = "failed" /\ adapters = <<>> /\ defaultProvider = "teller"
    /\ call.result.error.message = <<"At least one adapter must be provided">>

\* C19 as claimed: in every constructed dispatch object the registry is
\* non-empty and holds no adapter under an empty provider identifier.
C19_NoEmptyProviderRegistered ==
    status = "ready" =>
        /\ registry # <<>>
        /\ \A i \in 1..Len(registry) : registry[i].provider # ""

\* the place in the adapters list of the last adapter whose provider is k
LastOf(k) ==
    CHOOSE i \in 1..Len(adapters) :
        adapters[i] = k /\ \A j \in 1..Len(adapters) : adapters[j] = k => j <= i
Provided == {adapters[i] : i \in 1..Len(adapters)}

\* C20: with two or more adapters of one provider identifier in the list,
\* construction succeeds and the registry maps each identifier to the last
\* adapter given for it; every operation, named or fanned out, invokes only
\* last-registered adapters, a fan-out invokes each of them once, and an
\* overwritten adapter is never touched.
C20_LastRegisteredWins ==
    /\ (status # "new" /\ adapters # <<>>) => status = "ready"
    /\ status = "ready" =>
          /\ Len(registry) = Cardinality(Provided)
          /\ \A k \in Provided :
                \E i \in 1..Len(registry) : registry[i] = Slot(k, LastOf(k))
          /\ \A i \in TaskIds :
                /\ tasks[i].inst = LastOf(tasks[i].kind)
                /\ \A j \in TaskIds : tasks[j].inst = tasks[i].inst => j = i
          /\ (call.op \in FanOutOps /\ ~Truthy(call.provider)) =>
                Len(tasks) = Cardinality(Provided)
          /\ \A n \in 1..Len(adapters) :
                n # LastOf(adapters[n]) => adapterState[n] = EmptyAdapter

C20_Witness ==
    /\ status = "ready" /\ Len(adapters) = 2 /\ adapters[1] = adapters[2]
    /\ Len(registry) = 1
    /\ call.op = "disconnect" /\ ~Truthy(call.provider) /\ call.status = "settled"
    /\ Len(tasks) = 1 /\ tasks[1].inst = 2
    /\ tasks[1].pre.accessTokens # <<>> /\ adapterState[1] = EmptyAdapter

\* C21: during getTransactions with no provider named the adapters are
\* invoked one at a time, in registration order: an adapter is invoked only
\* when the call of the one before it has failed, at most one adapter call is
\* in flight, and no adapter is invoked after one that succeeded.
C21_FallbackIsSequential ==
    FanOut("getTransactions") =>
        /\ Cardinality(InFlight(tasks)) <= 1
        /\ \A i \in TaskIds :
              /\ tasks[i].inst = registry[i].inst
              /\ tasks[i].method = "getTransactions"
              /\ i < Len(tasks) => Failed(tasks[i])
              /\ Succeeded(tasks[i]) => i = Len(tasks)
              /\ tasks[i].pc = "await" => (i = Len(tasks) /\ call.status = "pending")

C21_Witness ==
    /\ FanOut("getTransactions") /\ call.status = "pending"
    /\ Len(registry) = 2 /\ Len(tasks) = 2
    /\ Failed(tasks[1]) /\ Len(tasks[1].resps) = 1
    /\ InFlight(tasks) = {2}

\* C22 as claimed: when an adapter invoked by connect, disconnect,
\* getAccounts, getTransactions or refreshAccounts throws a value that is not
\* a PulseError and the operation raises it wrapped, the PulseError carries the
\* operation's code, the call's userId (and accountId for getTransactions)
\* and the provider of the adapter that failed.
C22_WrappedErrorNamesProvider ==
    \A i \in TaskIds :
        (/\ call.op \in FanOutOps \cup {"getTransactions"}
         /\ Raised
         /\ Failed(tasks[i]) /\ ~IsPulseError(tasks[i].result.error)
         /\ call.result.error.message = <<OpPrefix(call.op)>> \o tasks[i].result.error.message)
        => /\ IsPulseError(call.result.error)
           /\ call.result.error.code = OpCode(call.op)
           /\ call.result.error.userId = call.userId
           /\ call.op = "getTransactions" => call.result.error.accountId = call.accountId
           /\ call.result.error.provider = tasks[i].kind

RefreshTask(t) == t.method = "refreshAccounts" /\ IsDone(t)
LastStep(t) == t.log[Len(t.log)]

\* C23: in the default refreshAccounts a failure of the disconnect or connect
\* step that is not a PulseError is raised as a PulseError with code
\* ACCOUNT_REFRESH_FAILED carrying the adapter's provider and the userId, a
\* PulseError is raised unchanged, and connect is not invoked when disconnect
\* failed.
C23_RefreshWrapsUntagged ==
    \A i \in TaskIds :
        RefreshTask(tasks[i]) =>
            /\ Len(tasks[i].log) \in 1..2
            /\ tasks[i].log[1].method = "disconnect"
            /\ ~tasks[i].log[1].result.ok => Len(tasks[i].log) = 1
            /\ Len(tasks[i].log) = 2 => tasks[i].log[2].method = "connect"
            /\ Failed(tasks[i]) <=> ~LastStep(tasks[i]).result.ok
            /\ (Failed(tasks[i]) /\ IsPulseError(LastStep(tasks[i]).result.error)) =>
                  tasks[i].result.error = LastStep(tasks[i]).result.error
            /\ (Failed(tasks[i]) /\ ~IsPulseError(LastStep(tasks[i]).result.error)) =>
                  tasks[i].result.error =
                     PulseError(<<"Failed to refresh accounts: ">>
                                   \o LastStep(tasks[i]).result.error.message,
                                "ACCOUNT_REFRESH_FAILED", tasks[i].kind,
                                tasks[i].p.userId, UNDEF)

C23_Witness ==
    \E i \in TaskIds :
        /\ RefreshTask(tasks[i]) /\ Failed(tasks[i])
        /\ Len(tasks[i].log) = 2
        /\ LastStep(tasks[i]).result.error.kind = "value"
        /\ tasks[i].result.error.code = "ACCOUNT_REFRESH_FAILED"

\* the registry slot that resolution with no provider named is to give
DefaultSlot ==
    IF Truthy(defaultProvider) /\ \E i \in 1..Len(registry) : registry[i].provider = defaultProvider
    THEN registry[CHOOSE i \in 1..Len(registry) : registry[i].provider = defaultProvider]
    ELSE registry[1]
Unnamed(ops) == call.op \in ops /\ ~Truthy(call.provider)

\* C24: adapter resolution with no provider named gives the adapter of the
\* configured default provider when one is configured and registered, and the
\* first-registered adapter otherwise; it never fails.
C24_ResolutionWithoutProvider ==
    status = "ready" =>
        /\ GetAdapter(registry, defaultProvider, "").error = NoError
        /\ registry[GetAdapter(registry, defaultProvider, "").index] = DefaultSlot
        /\ GetAdapter(registry, defaultProvider, UNDEF) = GetAdapter(registry, defaultProvider, "")
        /\ Unnamed(TokenOps) =>
              IF HasMethod(DefaultSlot.provider, call.op)
              THEN /\ Len(tasks) = 1 /\ tasks[1].inst = DefaultSlot.inst
                   /\ tasks[1].method = call.op
                   /\ Raised => call.result.error.code # "PROVIDER_NOT_FOUND"
              ELSE tasks = <<>> /\ Raised /\ call.result.error = NotSupported(call)

C24_Witness ==
    /\ status = "ready" /\ Unnamed({"storeAccessToken"})
    /\ Len(registry) = 2 /\ registry[2].provider = defaultProvider
    /\ Len(tasks) = 1 /\ tasks[1].inst = registry[2].inst
    /\ Has(adapterState[registry[2].inst].accessTokens, call.userId)

\* the calls a caller can make: operation, userId and provider argument
Calls3 ==
    ((FanOutOps \cup {"getTransactions"}) \X UserIds \X ProviderArgs)
    \cup (TokenOps \X StoreUserIds \X TokenProviderArgs)
Idle == status = "ready" /\ call.status # "pending" /\ InFlight(tasks) = {}
SameForEveryDefault(c) ==
    \A d \in DefaultProviders \cup Kinds :
        Dispatch(NewCall(c[1], c[2], c[3]), registry, d, adapterState)
            = Dispatch(NewCall(c[1], c[2], c[3]), registry, defaultProvider, adapterState)

\* C29 as claimed: the configured defaultProvider influences no public
\* operation: from any state a dispatch object can be in, every call makes
\* the same adapter calls and has the same outcome whatever the default is.
C29_DefaultNeverInfluences ==
    Idle => \A c \in Calls3 : SameForEveryDefault(c)

\* C29, amended: the configured defaultProvider does not influence connect,
\* disconnect, getAccounts, getTransactions and refreshAccounts, nor
\* exchangePublicToken and storeAccessToken called with a non-empty provider:
\* these make the same adapter calls and have the same outcome whatever the
\* default is; it selects the adapter of exchangePublicToken and
\* storeAccessToken when they are called with an empty provider.
C29_DefaultInfluencesOnlyUnnamedTokenOps ==
    Idle => \A c \in Calls3 :
               (c[1] \notin TokenOps \/ Truthy(c[3])) => SameForEveryDefault(c)

C29_Witness ==
    /\ Idle /\ Len(registry) = 2 /\ registry[2].provider = defaultProvider
    /\ Unnamed({"connect"}) /\ Len(tasks) = 2 /\ tasks[1].inst = registry[1].inst
    /\ ~SameForEveryDefault(<<"storeAccessToken", "u1", "">>)

NamedRegistered(c) == c.op \in FanOutOps /\ Truthy(c.provider) /\ RegIndex(registry, c.provider) # 0

\* C26: connect, disconnect, getAccounts and refreshAccounts called with a
\* named registered provider make one adapter method call, on the named
\* adapter, and no step of such a call changes the state of another adapter.
C26_NamedCallTouchesOnlyNamed ==
    [][NamedRegistered(call') =>
          LET target == registry[RegIndex(registry, call'.provider)] IN
          /\ Len(tasks') = 1
          /\ tasks'[1].inst = target.inst
          /\ tasks'[1].kind = call'.provider
          /\ tasks'[1].method = call'.op
          /\ \A n \in DOMAIN adapterState :
                n # target.inst => adapterState'[n] = adapterState[n]]_vars

C26_Witness ==
    /\ NamedRegistered(call) /\ call.op = "disconnect" /\ call.status = "settled"
    /\ Len(registry) = 2 /\ RegIndex(registry, call.provider) = 2
    /\ tasks[1].pre # adapterState[tasks[1].inst]
    /\ adapterState[registry[1].inst] # EmptyAdapter

\* C25: every transaction an adapter returns has as amount the magnitude of
\* the provider's signed amount, which is never negative, and as type DEBIT
\* when the signed amount is negative and CREDIT when it is zero or positive.
C25_AmountIsMagnitude ==
    \A i \in TaskIds :
        (tasks[i].method = "getTransactions" /\ Succeeded(tasks[i])) =>
            /\ Len(tasks[i].result.value) = Len(Posted(Answer(tasks[i])))
            /\ \A j \in 1..Len(tasks[i].result.value) :
                  LET a == Posted(Answer(tasks[i]))[j].amount
                      tx == tasks[i].result.value[j] IN
                  /\ tx.amount >= 0
                  /\ tx.amount = a \/ tx.amount = 0 - a
                  /\ tx.type = "DEBIT" <=> a < 0
                  /\ tx.type = "CREDIT" <=> a >= 0

C25_Witness ==
    \E i \in TaskIds :
        /\ tasks[i].method = "getTransactions" /\ Succeeded(tasks[i])
        /\ tasks[i].kind = "teller"
        /\ Posted(Answer(tasks[i]))[1].amount = -5
        /\ tasks[i].result.value[1].amount = 5
        /\ tasks[i].result.value[1].type = "DEBIT"

\* the stored token of user u in a userId->token map, NoToken when none
TokenOf(m, u) == IF Has(m, u) THEN m[CHOOSE i \in 1..Len(m) : m[i].userId = u].token ELSE NoToken

\* C27 as claimed: Pulse.disconnect(userId, provider) changes the session of
\* no other user on any adapter, the empty userId included: when an adapter's
\* disconnect made for the call has returned or raised, every other user's
\* stored token is the one stored before the call.
C27_DisconnectLeavesOtherUsers ==
    \A i \in TaskIds :
        (call.op = "disconnect" /\ TokenMap(tasks[i]) /\ IsDone(tasks[i])) =>
            \A u \in StoreUserIds :
                u # call.userId =>
                    TokenOf(Store(tasks[i]), u) = TokenOf(tasks[i].pre.accessTokens, u)

LastTask == tasks[Len(tasks)]

\* C28 as claimed: when the default refreshAccounts(userId) has completed on
\* the Plaid or Teller adapter, with or without an error, and nothing was
\* called since, the adapter holds no token for userId and getAccounts(userId)
\* would be rejected as not connected.
C28_RefreshLeavesUserDisconnected ==
    (tasks # <<>> /\ RefreshTask(LastTask) /\ TokenMap(LastTask)) =>
        /\ ~Has(Store(LastTask), LastTask.p.userId)
        /\ RejectedAsNotConnected(LastTask)

\* a disconnect(userId) call that has issued the remote revoke of userId's token
IssuedRevoke(t) ==
    /\ t.method = "disconnect" /\ Truthy(t.p.userId)
    /\ t.pc = "await" \/ t.resps # <<>>
StoresToken(t, u) == t.method \in TokenOps /\ t.p.userId = u

\* C30 as claimed: however disconnect calls for one user overlap on a Plaid or
\* Teller adapter, the remote revoke is issued once at most for each stored
\* token (two calls that issued it have a token stored for the user between
\* them), and once the calls have completed the adapter holds no token for
\* the user.
C30_RevokeOncePerToken ==
    /\ \A i \in TaskIds : \A j \in TaskIds :
          (i < j /\ IssuedRevoke(tasks[i]) /\ IssuedRevoke(tasks[j])
                 /\ tasks[i].p.userId = tasks[j].p.userId) =>
              \E k \in TaskIds : i < k /\ k < j /\ StoresToken(tasks[k], tasks[i].p.userId)
    /\ \A i \in TaskIds :
          (tasks[i].method = "disconnect" /\ Truthy(tasks[i].p.userId)
              /\ InFlight(tasks) = {}
              /\ \A k \in TaskIds : k > i => ~StoresToken(tasks[k], tasks[i].p.userId)) =>
              ~Has(adapterState[tasks[i].inst].accessTokens, tasks[i].p.userId)

====
